---------------------------- MODULE Spec2Model ----------------------------
(***************************************************************************)
(* A model of tgo.go, the SSA-to-LLVM lowering driver.                     *)
(*                                                                         *)
(* Four specifications share this module:                                  *)
(*   Spec        the driver, Compile: NewCompiler, Parse, the -printir     *)
(*               print, Verify, Optimize, Verify, EmitObject;              *)
(*   SpecParse   Compiler.Parse over the packages of a program;            *)
(*   SpecFunc    Compiler.parseFunc over one function, one instruction     *)
(*               per step;                                                 *)
(*   SpecBuiltin Compiler.parseBuiltin on one print/println call.          *)
(***************************************************************************)
EXTENDS Integers, Sequences, FiniteSets, TLC

\* ------------------------------------------------------------------------
\* Bounds of the model
\* ------------------------------------------------------------------------

\* Longest file content and longest emitted object, in bytes.
MaxFileLen == 2

\* The value instructions in the body block of a modelled loop.
MaxChain == 2

\* Most arguments of a modelled print or println call.
MaxArgs == 3

\* The byte values a file or an object may hold.
Byte == {"x", "y"}

\* ------------------------------------------------------------------------
\* State
\* ------------------------------------------------------------------------

VARIABLES
    \* --- the driver (Compile) ---
    pc,        \* position in Compile
    printIR,   \* the -printir flag
    outfile,   \* the file at outpath: [exists, data]
    objBytes,  \* the bytes EmitToMemoryBuffer produced (<<>> before it ran)
    irState,   \* what c.mod holds: "empty", "partial", "lowered", "optimized"
    stdout,    \* what fmt.Println(c.IR()) printed: the irState at each print
    stages,    \* the stages run so far, each [stage, ok]
    result,    \* what Compile returned: "running", "nil", "error"
    held,      \* the LLVM and OS resources created and not yet released
    \* --- one function's lowering (parseFunc) ---
    fn,        \* the ssa.Function being lowered
    domOrder,  \* what f.DomPreorder() returns for it
    low,       \* the Compiler and Frame state, with the history
    fpc,       \* position in parseFunc: [phase, b, i, p]
    pending,   \* the frame.phis the third loop of parseFunc ranges over
    ferr,      \* the error parseFunc returned ("": nil)
    \* --- a program's lowering (Parse) ---
    program,     \* the ssa.Program: the set of its packages
    pkgOrder,    \* what program.AllPackages() returns in this run
    ppc,         \* position in Parse: [phase, k, m]
    memberNames, \* the sorted member names of the package at hand
    frames,      \* the frames of the package at hand, by member name
    comp,        \* the Compiler state, with the history
    defined,     \* every parseFunc call: the function, and what the module
                 \* declared when it began
    perr,        \* the error Parse returned ("": nil)
    run,         \* 1: the first run of the compiler on program, 2: the second
    firstOut     \* what the first run left: [mod, bbs, code, err]

drvVars == <<pc, printIR, outfile, objBytes, irState, stdout, stages, result, held>>

funcVars == <<fn, domOrder, low, fpc, pending, ferr>>

parseVars == <<program, pkgOrder, ppc, memberNames, frames, comp, defined,
               perr, run, firstOut>>

vars == <<drvVars, funcVars, parseVars>>

\* ------------------------------------------------------------------------
\* Helpers
\* ------------------------------------------------------------------------

\* All sequences over S of length 0..n.
SeqUpTo(S, n) == UNION {[1..k -> S] : k \in 0..n}

NoFile == [exists |-> FALSE, data |-> <<>>]

File(data) == [exists |-> TRUE, data |-> data]

\* ------------------------------------------------------------------------
\* The driver: Compile (tgo.go 629-657)
\* ------------------------------------------------------------------------

\* f.Write(b) on a file opened at offset 0 without O_TRUNC: the first Len(b)
\* bytes are overwritten, the bytes of the old content past Len(b) stay.
WriteAtStart(old, b) ==
    b \o (IF Len(old) > Len(b) THEN SubSeq(old, Len(b) + 1, Len(old)) ELSE <<>>)

\* os.OpenFile(path, O_RDWR|O_CREATE, 0666): an existing file is opened as it
\* is, a missing one is created empty.
OpenFile(f) == IF f.exists THEN f ELSE File(<<>>)

LogStage(name, ok) == Append(stages, [stage |-> name, ok |-> ok])

\* if err != nil { return err } after a stage: where Compile goes next.
NextAfterParse(ok) == IF ok THEN "Verify1" ELSE "Done"
\* A variant of NextAfterVerify1 that ignores the error.
NextAfterVerify1Skip(ok) == "Optimize"

NextAfterVerify1(ok) == IF ok THEN "Optimize" ELSE "Done"
NextAfterVerify2(ok) == IF ok THEN "EmitObject" ELSE "Done"

DrvInit ==
    /\ pc = "NewCompiler"
    /\ printIR \in BOOLEAN
    /\ outfile \in {NoFile} \cup {File(d) : d \in SeqUpTo(Byte, MaxFileLen)}
    /\ objBytes = <<>>
    /\ irState = "empty"
    /\ stdout = <<>>
    /\ stages = <<>>
    /\ result = "running"
    /\ held = {}

\* c, err := NewCompiler(pkgName, target); if err != nil { return err }
NewCompiler ==
    /\ pc = "NewCompiler"
    /\ \E ok \in BOOLEAN :
          /\ pc' = IF ok THEN "Parse" ELSE "Done"
          /\ result' = IF ok THEN result ELSE "error"
    /\ UNCHANGED <<printIR, outfile, objBytes, irState, stdout, stages, held>>
    /\ UNCHANGED <<funcVars, parseVars>>

\* parseErr := c.Parse(pkgName): the module is lowered, or left partial.
Parse ==
    /\ pc = "Parse"
    /\ \E ok \in BOOLEAN :
          /\ irState' = IF ok THEN "lowered" ELSE "partial"
          /\ stages' = LogStage("Parse", ok)
    /\ pc' = "PrintIR"
    /\ UNCHANGED <<printIR, outfile, objBytes, stdout, result, held>>
    /\ UNCHANGED <<funcVars, parseVars>>

\* if printIR { fmt.Println(c.IR()) }
PrintIR ==
    /\ pc = "PrintIR"
    /\ stdout' = IF printIR THEN Append(stdout, irState) ELSE stdout
    /\ pc' = "ParseCheck"
    /\ UNCHANGED <<printIR, outfile, objBytes, irState, stages, result, held>>
    /\ UNCHANGED <<funcVars, parseVars>>

\* if parseErr != nil { return parseErr }
ParseCheck ==
    /\ pc = "ParseCheck"
    /\ LET ok == stages[Len(stages)].ok IN
          /\ pc' = NextAfterParse(ok)
          /\ result' = IF ok THEN result ELSE "error"
    /\ UNCHANGED <<printIR, outfile, objBytes, irState, stdout, stages, held>>
    /\ UNCHANGED <<funcVars, parseVars>>

\* if err := c.Verify(); err != nil { return err }
Verify1 ==
    /\ pc = "Verify1"
    /\ \E ok \in BOOLEAN :
          /\ stages' = LogStage("Verify", ok)
          /\ pc' = NextAfterVerify1(ok)
          /\ result' = IF NextAfterVerify1(ok) = "Done" THEN "error" ELSE result
    /\ UNCHANGED <<printIR, outfile, objBytes, irState, stdout, held>>
    /\ UNCHANGED <<funcVars, parseVars>>

\* llvm.NewX(): the resource lives until it is disposed of.
Acquire(h, r) == h \cup {r}

\* x.Dispose(), f.Close()
Release(h, r) == h \ {r}

\* The resources of Optimize (tgo.go 597-612): each is created and its
\* Dispose deferred; the deferred calls run at the return, last one first.
OptimizeHeld(h) ==
    Release(Release(Release(
        Acquire(Acquire(Acquire(h, "builder"), "funcPasses"), "modPasses"),
        "modPasses"), "funcPasses"), "builder")

\* The resources of EmitObject (tgo.go 614-626): the memory buffer, once
\* EmitToMemoryBuffer succeeded, and the file, opened and closed; nothing
\* disposes of the buffer.
EmitObjectHeld(h, emitOK, openOK) ==
    IF ~emitOK THEN h
    ELSE IF ~openOK THEN Acquire(h, "buf")
    ELSE Release(Acquire(Acquire(h, "buf"), "file"), "file")

\* c.Optimize(2): returns nothing, so it cannot fail.
Optimize ==
    /\ pc = "Optimize"
    /\ irState' = "optimized"
    /\ held' = OptimizeHeld(held)
    /\ stages' = LogStage("Optimize", TRUE)
    /\ pc' = "Verify2"
    /\ UNCHANGED <<printIR, outfile, objBytes, stdout, result>>
    /\ UNCHANGED <<funcVars, parseVars>>

\* if err := c.Verify(); err != nil { return err }
Verify2 ==
    /\ pc = "Verify2"
    /\ \E ok \in BOOLEAN :
          /\ stages' = LogStage("Verify", ok)
          /\ pc' = NextAfterVerify2(ok)
          /\ result' = IF ok THEN result ELSE "error"
    /\ UNCHANGED <<printIR, outfile, objBytes, irState, stdout, held>>
    /\ UNCHANGED <<funcVars, parseVars>>

\* err = c.EmitObject(outpath); return err   (EmitObject: tgo.go 614-626)
\*   emitOK: EmitToMemoryBuffer succeeded, yielding buf;
\*   openOK: os.OpenFile succeeded;
\*   n:      the bytes f.Write wrote (n < Len(buf) is a write error, which
\*           EmitObject does not look at).
EmitObject ==
    /\ pc = "EmitObject"
    /\ \E emitOK \in BOOLEAN, openOK \in BOOLEAN,
          buf \in SeqUpTo(Byte, MaxFileLen) \ {<<>>} :
          \E n \in 0..Len(buf) :
             /\ held' = EmitObjectHeld(held, emitOK, openOK)
             /\ IF ~emitOK
                THEN /\ stages' = LogStage("EmitObject", FALSE)
                     /\ UNCHANGED <<outfile, objBytes>>
                ELSE IF ~openOK
                THEN /\ stages' = LogStage("EmitObject", FALSE)
                     /\ objBytes' = buf
                     /\ UNCHANGED outfile
                ELSE /\ stages' = LogStage("EmitObject", TRUE)
                     /\ objBytes' = buf
                     /\ outfile' = File(WriteAtStart(OpenFile(outfile).data,
                                                     SubSeq(buf, 1, n)))
    /\ pc' = "Done"
    /\ result' = IF stages'[Len(stages')].ok THEN "nil" ELSE "error"
    /\ UNCHANGED <<printIR, irState, stdout>>
    /\ UNCHANGED <<funcVars, parseVars>>

DrvNext ==
    \/ NewCompiler
    \/ Parse
    \/ PrintIR
    \/ ParseCheck
    \/ Verify1
    \/ Optimize
    \/ Verify2
    \/ EmitObject

FuncIdle ==
    /\ fn = <<>>
    /\ domOrder = <<>>
    /\ low = <<>>
    /\ fpc = [phase |-> "idle", b |-> 0, i |-> 0, p |-> 0]
    /\ pending = <<>>
    /\ ferr = ""

ParseIdle ==
    /\ program = {}
    /\ pkgOrder = <<>>
    /\ ppc = [phase |-> "idle", k |-> 0, m |-> 0]
    /\ memberNames = <<>>
    /\ frames = <<>>
    /\ comp = <<>>
    /\ defined = <<>>
    /\ perr = ""
    /\ run = 0
    /\ firstOut = <<>>

Init == DrvInit /\ FuncIdle /\ ParseIdle

Next == DrvNext

Spec == Init /\ [][Next]_vars

\* ------------------------------------------------------------------------
\* Strings, names and types
\* ------------------------------------------------------------------------

\* A string is the sequence of its characters. The characters the model's
\* names use, in byte order (what sort.Strings and strings.IndexByte see).
Alphabet == <<".", "F", "G", "a", "b", "i", "l", "m", "n", "p", "t">>

CharRank(ch) == CHOOSE k \in DOMAIN Alphabet : Alphabet[k] = ch

Str_main == <<"m", "a", "i", "n">>
Str_lib == <<"l", "i", "b">>
Str_app == <<"a", "p", "p">>
Str_F == <<"F">>
Str_G == <<"G">>
Str_init == <<"i", "n", "i", "t">>
Str_Dot == <<".">>

\* strings.IndexByte(s, ch) == -1
NoByte(s, ch) == \A k \in DOMAIN s : s[k] # ch

\* getPackageRelativeName (tgo.go 244-249): a name without a '.' gets the
\* frame's package prefix.
getPackageRelativeName(pkgPrefix, name) ==
    IF NoByte(name, ".") THEN pkgPrefix \o Str_Dot \o name ELSE name

\* A Go type is the sequence of its constructors, outermost first:
\* <<"int">>, <<"named", "int">>, <<"ptr", "int">>.
BasicKinds == {"bool", "int", "int32", "string", "unsafeptr", "float64"}

RECURSIVE getLLVMType(_)
\* getLLVMType (tgo.go 203-242): [err, t]. Struct types are not among the
\* types the modelled programs use.
getLLVMType(goType) ==
    IF goType = <<>> THEN [err |-> "todo: unknown type", t |-> <<>>]
    ELSE CASE Head(goType) = "bool"      -> [err |-> "", t |-> <<"i1">>]
           [] Head(goType) = "int"       -> [err |-> "", t |-> <<"i32">>]
           [] Head(goType) = "int32"     -> [err |-> "", t |-> <<"i32">>]
           [] Head(goType) = "string"    -> [err |-> "", t |-> <<"{i32,i8*}">>]
           [] Head(goType) = "unsafeptr" -> [err |-> "", t |-> <<"ptr", "i8">>]
           [] Head(goType) = "named"     -> getLLVMType(Tail(goType))
           [] Head(goType) = "ptr"       ->
                 LET e == getLLVMType(Tail(goType)) IN
                 IF e.err # "" THEN e ELSE [err |-> "", t |-> <<"ptr">> \o e.t]
           [] Head(goType) \in BasicKinds ->
                 [err |-> "todo: unknown basic type", t |-> <<>>]
           [] OTHER -> [err |-> "todo: unknown type", t |-> <<>>]

RECURSIVE Underlying(_)
Underlying(goType) ==
    IF goType # <<>> /\ Head(goType) = "named" THEN Underlying(Tail(goType))
    ELSE goType

\* expr.Value.Kind() of a typed constant.
ConstKind(goType) ==
    LET u == Underlying(goType) IN
    IF u = <<>> THEN "Unknown"
    ELSE CASE Head(u) = "string"          -> "String"
           [] Head(u) \in {"int", "int32"} -> "Int"
           [] Head(u) = "bool"            -> "Bool"
           [] Head(u) = "float64"         -> "Float"
           [] OTHER                       -> "Unknown"

\* The error kinds of the specification, by the message tgo.go returns.
ErrKind(msg) ==
    CASE msg = "" -> "nil"
      [] msg \in {"unknown basic arg type", "unknown arg type"} -> "UnsupportedPrintArg"
      [] msg = "todo: unknown constant" -> "UnsupportedConst"
      [] msg \in {"todo: unknown basic type", "todo: unknown type"} -> "UnsupportedType"
      [] msg = "undefined function" -> "UndefinedFunction"
      [] msg \in {"todo: return values", "todo: return value"} -> "MultipleReturns"
      [] msg = "todo: member" -> "UnsupportedMember"
      [] OTHER -> "UnsupportedInstruction"

\* ------------------------------------------------------------------------
\* SSA values and the lowering state
\* ------------------------------------------------------------------------

\* An ssa.Value as an operand: an instruction of the function (id: its
\* index in F.ins), a constant, a parameter (id: its position), a global.
InstrRef(id) == [t |-> "instr", id |-> id, typ |-> <<>>, name |-> <<>>]
ConstRef(typ) == [t |-> "const", id |-> 0, typ |-> typ, name |-> <<>>]
ParamRef(i, typ) == [t |-> "param", id |-> i, typ |-> typ, name |-> <<>>]
GlobalRef(name, typ) == [t |-> "global", id |-> 0, typ |-> typ, name |-> name]

\* An ssa.Instruction of a function F.
\*   kind   Alloc, BinOp, UnOp, Call, Phi, FieldAddr, Convert (ssa.Value
\*          instructions; Convert stands for those parseExpr does not know),
\*          If, Jump, Return, Store, Go
\*   ops    X, Y / X / Args / Edges / Cond / Results / Addr, Val
\*   op     the token of a BinOp or UnOp, "heap" or "stack" for an Alloc
\*   callee [k, pkg, name] of a Call: k = "builtin", "func" or "value"
\*   typ    the instruction's Go type
\*   block  the index in F.blocks of the block holding it
NoCallee == [k |-> "", pkg |-> <<>>, name |-> <<>>]
Builtin(name) == [k |-> "builtin", pkg |-> <<>>, name |-> name]
FuncCallee(pkg, name) == [k |-> "func", pkg |-> pkg, name |-> name]

Instr(kind, op, ops, typ, block) ==
    [kind |-> kind, op |-> op, ops |-> ops, callee |-> NoCallee,
     typ |-> typ, block |-> block]

CallInstr(callee, args, typ, block) ==
    [kind |-> "Call", op |-> "", ops |-> args, callee |-> callee,
     typ |-> typ, block |-> block]

ValueKinds == {"Alloc", "BinOp", "UnOp", "Call", "Phi", "FieldAddr", "Convert"}

\* v.Type()
TypeOf(F, v) == IF v.t = "instr" THEN F.ins[v.id].typ ELSE v.typ

\* An llvm.Value: an instruction of the module (n: its index in code), a
\* constant, a function parameter, a global or function (n: its index in
\* mod, 0 for the nil value), a basic block (n: its index in bbs).
Val(k, n) == [k |-> k, n |-> n]
NilVal == Val("nil", 0)

EmptyMap == [x \in {} |-> 0]

\* The intrinsics NewCompiler declares (tgo.go 82-89); their names are kept
\* whole, as one-element strings.
Decl(kind, name) == [kind |-> kind, name |-> name, private |-> FALSE]
Intrinsics ==
    <<Decl("func", <<"__go_printstring">>), Decl("func", <<"__go_printint">>),
      Decl("func", <<"__go_printspace">>), Decl("func", <<"__go_printnl">>)>>

\* The state lowering works on.
\*   Compiler: mod (the module's functions and globals, in the order they
\*             were added), bbs (the basic blocks, each [fn, label]), code
\*             (the instructions, each [bb, op, callee, args, inc], in the
\*             order they were emitted), at (the builder's block, 0: none);
\*   Frame:    locals, blocks, phis;
\*   history:  cur (the instruction parseInstr is lowering, 0: none),
\*             lookups (every locals lookup of an instruction: [v, at, hit]),
\*             lowered (how often each instruction was lowered),
\*             calls (every parseFunctionCall), prints (every parseBuiltin).
NewLowering(mod) ==
    [mod |-> mod, bbs |-> <<>>, code |-> <<>>, at |-> 0,
     locals |-> EmptyMap, blocks |-> EmptyMap, phis |-> <<>>,
     cur |-> 0, lookups |-> {}, lowered |-> EmptyMap,
     calls |-> <<>>, prints |-> <<>>]

\* A fresh Frame for the next function (parseFuncDecl, tgo.go 253-259).
NewFrame(L) ==
    [L EXCEPT !.locals = EmptyMap, !.blocks = EmptyMap, !.phis = <<>>,
              !.cur = 0, !.lookups = {}, !.lowered = EmptyMap]

\* What a lowering operation returns: the state, a value, an error.
Res(L, val, err) == [L |-> L, val |-> val, err |-> err]

IRInstr(bb, op, callee, args) ==
    [bb |-> bb, op |-> op, callee |-> callee, args |-> args, inc |-> <<>>]

\* c.builder.CreateX(...): the instruction is appended to the builder's block.
Emit(L, op, callee, args) ==
    [L EXCEPT !.code = Append(@, IRInstr(L.at, op, callee, args))]

LastVal(L) == Val("inst", Len(L.code))

\* c.mod.NamedFunction(name) / c.mod.NamedGlobal(name): the index in mod, or 0.
NamedFunction(mod, name) ==
    IF \E k \in DOMAIN mod : mod[k].name = name /\ mod[k].kind = "func"
    THEN CHOOSE k \in DOMAIN mod : mod[k].name = name /\ mod[k].kind = "func"
    ELSE 0

NamedGlobal(mod, name) ==
    IF \E k \in DOMAIN mod : mod[k].name = name /\ mod[k].kind \in {"global", "const"}
    THEN CHOOSE k \in DOMAIN mod : mod[k].name = name /\ mod[k].kind \in {"global", "const"}
    ELSE 0

Count(m, k) == IF k \in DOMAIN m THEN m[k] ELSE 0

\* ------------------------------------------------------------------------
\* Expression and instruction lowering
\* ------------------------------------------------------------------------

\* The static context of a lowering: F is the ssa.Function being lowered,
\*   F.name, F.pkgPrefix   Frame.name (qualified) and Frame.pkgPrefix
\*   F.blocks              the blocks, each [instrs, preds, succs]
\*   F.ins                 the instructions
\*
\* parseExpr and the functions it calls on an instruction's operands
\* (parseBinOp, parseUnOp, parseFunctionCall, the FieldAddr case, and in
\* parseInstr the If, Return and Store cases) all lower the operands left
\* to right and return at the first error; parseOperands is that loop, and
\* each of them is given its result.

BinOps == {"+", "-", "*", "/", "%", "&", "|", "^", "<<", ">>",
           "==", "!=", "<", "<=", ">", ">="}

BinOpIR(op) ==
    CASE op = "+" -> "add"   [] op = "-" -> "sub"   [] op = "*" -> "mul"
      [] op = "/" -> "sdiv"  [] op = "%" -> "srem"  [] op = "&" -> "and"
      [] op = "|" -> "or"    [] op = "^" -> "xor"   [] op = "<<" -> "shl"
      [] op = ">>" -> "ashr" [] op = "==" -> "icmp eq"
      [] op = "!=" -> "icmp ne"  [] op = "<" -> "icmp slt"
      [] op = "<=" -> "icmp sle" [] op = ">" -> "icmp sgt"
      [] op = ">=" -> "icmp sge"

\* The value c.builder.CreateX(...) returns: the emitted instruction.
Emitted(L) == Res(L, LastVal(L), "")

Failed(L, err) == Res(L, NilVal, err)

\* parseConst (tgo.go 557-571). A string constant adds its data to the
\* module as a global named .str.
parseConst(L, typ) ==
    CASE ConstKind(typ) = "String" ->
            Res([L EXCEPT !.mod = Append(@, Decl("strdata", <<".str">>))],
                Val("const", 0), "")
      [] ConstKind(typ) = "Int" -> Res(L, Val("const", 0), "")
      [] OTHER -> Failed(L, "todo: unknown constant")

\* The locals lookup at the head of parseExpr (tgo.go 450-456), recorded.
Lookup(L, v) ==
    IF v.t = "instr"
    THEN [L EXCEPT !.lookups =
             @ \cup {[v |-> v.id, at |-> L.cur, hit |-> v.id \in DOMAIN L.locals]}]
    ELSE L

\* frame.locals[instr] = value (tgo.go 329)
LocalsStore(r, id) == [r.L EXCEPT !.locals = (id :> r.val) @@ @]

RECURSIVE parseExpr(_, _, _)
RECURSIVE parseOperands(_, _, _, _, _)
RECURSIVE printArgs(_, _, _, _)

\* The operand loop, from operand i on: the values so far are vals.
parseOperandsNext(a, F, ops, i, vals) ==
    IF a.err # "" THEN Res(a.L, vals, a.err)
    ELSE parseOperands(a.L, F, ops, i + 1, Append(vals, a.val))

parseOperands(L, F, ops, i, vals) ==
    IF i > Len(ops) THEN Res(L, vals, "")
    ELSE parseOperandsNext(parseExpr(L, F, ops[i]), F, ops, i, vals)

\* parseBinOp (tgo.go 506-555), given the lowered x and y.
parseBinOp(L, binop, x, y) ==
    IF binop.op \in BinOps
    THEN Emitted(Emit(L, BinOpIR(binop.op), <<>>, <<x, y>>))
    ELSE IF binop.op = "&^"
    THEN Emitted(Emit(Emit(L, "not", <<>>, <<y>>), "and", <<>>,
                      <<x, Val("inst", Len(L.code) + 1)>>))
    ELSE Failed(L, "unknown binop")

\* parseUnOp (tgo.go 573-586), given the lowered x.
parseUnOp(L, unop, x) ==
    IF unop.op = "!" THEN Emitted(Emit(L, "not", <<>>, <<x>>))
    ELSE IF unop.op = "*" THEN Emitted(Emit(L, "load", <<>>, <<x>>))
    ELSE Failed(L, "todo: unknown unop")

\* The switch on arg.Type() in parseBuiltin (tgo.go 390-402): the intrinsic
\* to call, or the error.
PrintFunc(goType) ==
    IF goType # <<>> /\ Head(goType) \in BasicKinds
    THEN CASE Head(goType) \in {"int", "int32"} ->
                 [err |-> "", fn |-> <<"__go_printint">>]
           [] Head(goType) = "string" ->
                 [err |-> "", fn |-> <<"__go_printstring">>]
           [] OTHER -> [err |-> "unknown basic arg type", fn |-> <<>>]
    ELSE [err |-> "unknown arg type", fn |-> <<>>]

\* The body of the loop of parseBuiltin after value, err := c.parseExpr(
\* frame, arg) (tgo.go 387-402), and on to argument i + 1.
printArg(a, pf, F, args, i) ==
    IF a.err # "" THEN Failed(a.L, a.err)
    ELSE IF pf.err # "" THEN Failed(a.L, pf.err)
    ELSE printArgs(Emit(a.L, "call", pf.fn, <<a.val>>), F, args, i + 1)

\* A variant of Space that never separates.
SpaceNever(L, i) == L

\* if i >= 1 { CreateCall(c.printspaceFunc) } (tgo.go 382-384); arguments
\* are counted from 1 here.
Space(L, i) == IF i >= 2 THEN Emit(L, "call", <<"__go_printspace">>, <<>>) ELSE L

\* for i, arg := range instr.Args { ... } of parseBuiltin (tgo.go 381-403),
\* from argument i on.
printArgs(L, F, args, i) ==
    IF i > Len(args) THEN Res(L, NilVal, "")
    ELSE printArg(parseExpr(Space(L, i), F, args[i]),
                  PrintFunc(TypeOf(F, args[i])), F, args, i)

\* if name == "println" { CreateCall(c.printnlFunc) } (tgo.go 404-407)
printEnd(r, name) ==
    IF r.err = "" /\ name = "println"
    THEN Res(Emit(r.L, "call", <<"__go_printnl">>, <<>>), NilVal, "")
    ELSE r

\* The record of a parseBuiltin call: the range of code it emitted.
printed(out, id, from) ==
    [out EXCEPT !.L.prints =
        Append(@, [id |-> id, from |-> from, to |-> Len(out.L.code),
                   err |-> out.err])]

\* parseBuiltin (tgo.go 375-411)
parseBuiltin(L, F, id) ==
    IF F.ins[id].callee.name \in {"print", "println"}
    THEN printed(printEnd(printArgs(L, F, F.ins[id].ops, 1), F.ins[id].callee.name),
                 id, Len(L.code) + 1)
    ELSE printed(Failed(L, "todo: builtin"), id, Len(L.code) + 1)

\* name := c.getPackageRelativeName(frame, fn.Name()) (tgo.go 416)
CalleeName(F, call) == getPackageRelativeName(F.pkgPrefix, call.callee.name)

\* The lookup of parseFunctionCall (tgo.go 416-420), recorded in calls:
\* the callee (callee.pkg is the prefix of the callee's own package), the
\* name looked up, whether it was found, and whether the module declared
\* the callee under its own qualified name at that moment.
lookupCallee(L, F, call) ==
    [L EXCEPT !.calls =
        Append(@, [caller |-> F.name, callee |-> call.callee,
                   name |-> CalleeName(F, call),
                   found |-> NamedFunction(L.mod, CalleeName(F, call)) # 0,
                   declared |-> NamedFunction(L.mod,
                       call.callee.pkg \o Str_Dot \o call.callee.name) # 0])]

\* What each instruction kind does once its operands are lowered.
withOperands(ps, F, id) ==
    IF ps.err # "" THEN Failed(ps.L, ps.err)
    ELSE CASE F.ins[id].kind = "BinOp" ->
                 parseBinOp(ps.L, F.ins[id], ps.val[1], ps.val[2])
           [] F.ins[id].kind = "UnOp" -> parseUnOp(ps.L, F.ins[id], ps.val[1])
           [] F.ins[id].kind = "FieldAddr" ->
                 \* CreateGEP(val, indices) (tgo.go 476-485)
                 Emitted(Emit(ps.L, "gep", <<>>, ps.val))
           [] F.ins[id].kind = "Call" ->
                 \* CreateCall(target, params) (tgo.go 431)
                 Emitted(Emit(ps.L, "call", CalleeName(F, F.ins[id]), ps.val))

\* The switch of parseExpr on an instruction that is not in locals
\* (tgo.go 458-503), with parseCall (tgo.go 434-445) and the head of
\* parseFunctionCall (tgo.go 413-420).
lowerInstrValue(L, F, id) ==
    CASE F.ins[id].kind = "Alloc" ->
            IF getLLVMType(Tail(Underlying(F.ins[id].typ))).err # ""
            THEN Failed(L, getLLVMType(Tail(Underlying(F.ins[id].typ))).err)
            ELSE Emitted(Emit(L, IF F.ins[id].op = "heap" THEN "malloc" ELSE "alloca",
                              <<>>, <<>>))
      [] F.ins[id].kind = "Phi" ->
            IF getLLVMType(F.ins[id].typ).err # ""
            THEN Failed(L, getLLVMType(F.ins[id].typ).err)
            ELSE Emitted([Emit(L, "phi", <<>>, <<>>) EXCEPT !.phis =
                             Append(@, [ssa |-> id, llvm |-> Len(L.code) + 1])])
      [] F.ins[id].kind = "Call" /\ F.ins[id].callee.k = "builtin" ->
            parseBuiltin(L, F, id)
      [] F.ins[id].kind = "Call" /\ F.ins[id].callee.k = "func" ->
            IF NamedFunction(L.mod, CalleeName(F, F.ins[id])) = 0
            THEN Failed(lookupCallee(L, F, F.ins[id]), "undefined function")
            ELSE withOperands(parseOperands(lookupCallee(L, F, F.ins[id]), F,
                                            F.ins[id].ops, 1, <<>>), F, id)
      [] F.ins[id].kind = "Call" -> Failed(L, "todo: unknown call type")
      [] F.ins[id].kind \in {"BinOp", "UnOp", "FieldAddr"} ->
            withOperands(parseOperands(L, F, F.ins[id].ops, 1, <<>>), F, id)
      [] OTHER -> Failed(L, "todo: unknown expression")

\* The instruction is lowered once more.
CountLowering(L, id) == [L EXCEPT !.lowered = (id :> (Count(@, id) + 1)) @@ @]

\* parseExpr (tgo.go 447-504)
parseExpr(L, F, expr) ==
    IF expr.t = "instr" /\ expr.id \in DOMAIN L.locals
    THEN Res(Lookup(L, expr), L.locals[expr.id], "")
    ELSE CASE expr.t = "instr"  ->
                 lowerInstrValue(CountLowering(Lookup(L, expr), expr.id), F, expr.id)
           [] expr.t = "const"  -> parseConst(L, expr.typ)
           [] expr.t = "global" ->
                 Res(L, Val("global",
                            NamedGlobal(L.mod,
                                getPackageRelativeName(F.pkgPrefix, expr.name))), "")
           [] expr.t = "param"  -> Res(L, Val("param", expr.id), "")
           [] OTHER -> Failed(L, "todo: unknown expression")

\* frame.blocks[b] as a branch target
BlockVal(L, b) == Val("bb", L.blocks[b])

\* case ssa.Value of parseInstr (tgo.go 327-330): the value is stored in
\* locals, error or not.
storeValue(r, id) == [L |-> LocalsStore(r, id), err |-> r.err]

\* The If, Return and Store cases of parseInstr once the operands are
\* lowered (tgo.go 331-369).
finishInstr(ps, F, id) ==
    IF ps.err # "" THEN [L |-> ps.L, err |-> ps.err]
    ELSE CASE F.ins[id].kind = "If" ->
                 [L |-> Emit(ps.L, "condbr", <<>>,
                             <<ps.val[1],
                               BlockVal(ps.L, F.blocks[F.ins[id].block].succs[1]),
                               BlockVal(ps.L, F.blocks[F.ins[id].block].succs[2])>>),
                  err |-> ""]
           [] F.ins[id].kind = "Return" ->
                 [L |-> Emit(ps.L, "ret", <<>>, ps.val), err |-> ""]
           [] F.ins[id].kind = "Store" ->
                 [L |-> Emit(ps.L, "store", <<>>, <<ps.val[2], ps.val[1]>>),
                  err |-> ""]

\* parseInstr (tgo.go 325-373) on instruction id of F; L.cur is id.
parseInstrAt(L, F, id) ==
    CASE F.ins[id].kind \in ValueKinds ->
            storeValue(parseExpr(L, F, InstrRef(id)), id)
      [] F.ins[id].kind = "Jump" ->
            [L |-> Emit(L, "br", <<>>,
                        <<BlockVal(L, F.blocks[F.ins[id].block].succs[1])>>),
             err |-> ""]
      [] F.ins[id].kind = "Return" /\ Len(F.ins[id].ops) = 0 ->
            [L |-> Emit(L, "ret void", <<>>, <<>>), err |-> ""]
      [] F.ins[id].kind = "Return" /\ Len(F.ins[id].ops) > 1 ->
            [L |-> L, err |-> "todo: return value"]
      [] F.ins[id].kind \in {"If", "Return", "Store"} ->
            finishInstr(parseOperands(L, F, F.ins[id].ops, 1, <<>>), F, id)
      [] OTHER -> [L |-> L, err |-> "unknown instruction"]

parseInstr(L, F, id) == parseInstrAt([L EXCEPT !.cur = id], F, id)

\* ------------------------------------------------------------------------
\* Function lowering: parseFunc (tgo.go 289-323)
\* ------------------------------------------------------------------------

NumBlocks(F) == Len(F.blocks)

RECURSIVE ReachAvoiding(_, _, _)
\* The blocks reachable from seen without entering block avoid.
ReachAvoiding(F, avoid, seen) ==
    LET more == {s \in 1..NumBlocks(F) :
                    /\ s # avoid
                    /\ \E b \in seen : \E k \in DOMAIN F.blocks[b].succs :
                          F.blocks[b].succs[k] = s}
    IN  IF more \subseteq seen THEN seen ELSE ReachAvoiding(F, avoid, seen \cup more)

\* Block d dominates block b: every path from the entry (block 1) to b
\* passes through d.
Dominates(F, d, b) == d = b \/ b \notin ReachAvoiding(F, d, {1} \ {d})

DomSubtree(F, d) == {b \in 1..NumBlocks(F) : Dominates(F, d, b)}

\* A variant of DomPreorders, range f.Blocks: the blocks in the order of
\* their indices.
BlockOrder(F) == {[k \in 1..NumBlocks(F) |-> k]}

\* f.DomPreorder() (tgo.go 292, 298): the blocks in a preorder of the
\* dominator tree. The order of a block's children is the library's
\* choice, so every preorder of the tree is a possible answer.
DomPreorders(F) ==
    {p \in Permutations(1..NumBlocks(F)) :
        /\ p[1] = 1
        /\ \A i \in 1..NumBlocks(F) :
              LET n == Cardinality(DomSubtree(F, p[i])) IN
              /\ i + n - 1 <= NumBlocks(F)
              /\ {p[j] : j \in i..(i + n - 1)} = DomSubtree(F, p[i])}

RECURSIVE createBlocks(_, _, _, _)
\* The first loop of parseFunc (tgo.go 292-295), from position k of order.
createBlocks(L, F, order, k) ==
    IF k > Len(order) THEN L
    ELSE createBlocks(
            [L EXCEPT !.bbs = Append(@, [fn |-> NamedFunction(L.mod, F.name),
                                         label |-> order[k]]),
                      !.blocks = (order[k] :> (Len(L.bbs) + 1)) @@ @],
            F, order, k + 1)

\* c.builder.SetInsertPointAtEnd(frame.blocks[block]) (tgo.go 299)
SetInsertPoint(L, b) == [L EXCEPT !.at = L.blocks[b]]

\* One iteration of the inner loop of parseFunc (tgo.go 299-306):
\* instruction i of block order[b]; the builder moves to the block first
\* when the instruction is the block's first.
lowerAt(L, F, order, b, i) ==
    parseInstr(IF i = 1 THEN SetInsertPoint(L, order[b]) ELSE L,
               F, F.blocks[order[b]].instrs[i])

\* A variant of IncomingBlock that takes the phi's own block.
IncomingBlockSelf(L, F, blk, i) == L.blocks[blk]

\* llvmBlock := frame.blocks[block.Preds[i]] (tgo.go 317)
IncomingBlock(L, F, blk, i) == L.blocks[F.blocks[blk].preds[i]]

\* phi.llvm.AddIncoming(...) (tgo.go 318)
AddIncoming(L, n, val, bb) ==
    [L EXCEPT !.code[n].inc = Append(@, [val |-> val, bb |-> bb])]

RECURSIVE resolveEdges(_, _, _, _)
\* The body of the edge loop after llvmVal, err := c.parseExpr(frame, edge)
\* (tgo.go 314-318), and on to edge i + 1.
resolveEdge(r, F, phi, i) ==
    IF r.err # "" THEN [L |-> r.L, err |-> r.err]
    ELSE resolveEdges(
            AddIncoming(r.L, phi.llvm, r.val,
                        IncomingBlock(r.L, F, F.ins[phi.ssa].block, i)),
            F, phi, i + 1)

\* for i, edge := range phi.ssa.Edges (tgo.go 312-319), from edge i on.
resolveEdges(L, F, phi, i) ==
    IF i > Len(F.ins[phi.ssa].ops) THEN [L |-> L, err |-> ""]
    ELSE resolveEdge(parseExpr([L EXCEPT !.cur = 0], F, F.ins[phi.ssa].ops[i]),
                     F, phi, i)

RECURSIVE lowerBlocks(_, _, _, _, _)
lowerBlocksNext(r, F, order, b, i) ==
    IF r.err # "" THEN r ELSE lowerBlocks(r.L, F, order, b, i + 1)

\* The second loop of parseFunc (tgo.go 298-307), from instruction i of
\* block order[b] on.
lowerBlocks(L, F, order, b, i) ==
    IF b > Len(order) THEN [L |-> L, err |-> ""]
    ELSE IF i > Len(F.blocks[order[b]].instrs)
         THEN lowerBlocks(L, F, order, b + 1, 1)
    ELSE lowerBlocksNext(lowerAt(L, F, order, b, i), F, order, b, i)

RECURSIVE resolvePhis(_, _, _, _)
resolvePhisNext(r, F, phis, p) ==
    IF r.err # "" THEN r ELSE resolvePhis(r.L, F, phis, p + 1)

\* The third loop of parseFunc (tgo.go 310-320), over the phis the frame
\* held when the loop began, from the p-th on.
resolvePhis(L, F, phis, p) ==
    IF p > Len(phis) THEN [L |-> L, err |-> ""]
    ELSE resolvePhisNext(resolveEdges(L, F, phis[p], 1), F, phis, p)

parseFuncPhis(r, F) ==
    IF r.err # "" THEN r ELSE resolvePhis(r.L, F, r.L.phis, 1)

\* parseFunc as one operation.
parseFunc(L, F, order) ==
    parseFuncPhis(lowerBlocks(createBlocks(L, F, order, 1), F, order, 1, 1), F)

\* ------------------------------------------------------------------------
\* The functions lowered in SpecFunc
\* ------------------------------------------------------------------------

T_int == <<"int">>
T_bool == <<"bool">>
T_string == <<"string">>

Block(instrs, preds, succs) == [instrs |-> instrs, preds |-> preds, succs |-> succs]

Func(name, pkgPrefix, blocks, ins) ==
    [name |-> pkgPrefix \o Str_Dot \o name, pkgPrefix |-> pkgPrefix,
     blocks |-> blocks, ins |-> ins]

\* One block: an alloc, a store to it, a unary operation on it, a further
\* instruction and a return. Some of the choices are outside what the
\* compiler supports.
StraightFuncs ==
    { Func(Str_F, Str_main,
           <<Block(<<1, 2, 3, 4, 5>>, <<>>, <<>>)>>,
           <<Instr("Alloc", heap, <<>>, <<"ptr", "int">>, 1),
             Instr("Store", "", <<InstrRef(1), ConstRef(T_int)>>, <<>>, 1),
             Instr("UnOp", uop, <<InstrRef(1)>>, T_int, 1),
             fourth,
             Instr("Return", "", ret, <<>>, 1)>>) :
        heap \in {"heap", "stack"},
        uop \in {"*", "!", "-"},
        fourth \in {Instr("BinOp", "+", <<InstrRef(3), ConstRef(T_int)>>, T_int, 1),
                    Instr("BinOp", "&^", <<InstrRef(3), InstrRef(3)>>, T_int, 1),
                    Instr("BinOp", "&&", <<InstrRef(3), InstrRef(3)>>, T_int, 1),
                    Instr("FieldAddr", "", <<InstrRef(1)>>, <<"ptr", "int">>, 1),
                    Instr("Convert", "", <<InstrRef(3)>>, T_int, 1),
                    Instr("Go", "", <<>>, <<>>, 1)},
        ret \in {<<>>, <<InstrRef(3)>>, <<InstrRef(3), InstrRef(3)>>} }

\* if c { t = ... }; q = phi(.., t); println(q); return: blocks entry (1),
\* if.then (2), if.done (3).
IfThenFuncs ==
    { Func(Str_F, Str_main,
           <<Block(<<1, 2>>, <<>>, <<2, 3>>),
             Block(<<3, 4>>, <<1>>, <<3>>),
             Block(<<5, 6, 7>>, <<1, 2>>, <<>>)>>,
           <<Instr("BinOp", "<", <<ParamRef(1, T_int), ConstRef(T_int)>>, T_bool, 1),
             Instr("If", "", <<InstrRef(1)>>, <<>>, 1),
             Instr("BinOp", "-", <<ConstRef(T_int), x>>, T_int, 2),
             Instr("Jump", "", <<>>, <<>>, 2),
             Instr("Phi", "", <<e1, e2>>, ptyp, 3),
             CallInstr(Builtin("println"), <<arg>>, <<>>, 3),
             Instr("Return", "", ret, <<>>, 3)>>) :
        x \in {ParamRef(1, T_int), InstrRef(1)},
        e1 \in {ParamRef(1, T_int), ConstRef(T_int), InstrRef(1)},
        e2 \in {InstrRef(3), InstrRef(1), ConstRef(T_int)},
        ptyp \in {T_int, <<"float64">>},
        arg \in {InstrRef(5), ConstRef(T_string)},
        ret \in {<<>>, <<InstrRef(5)>>} }

\* s, i := .., 0; for i < n { ...; i++ }; return ..: blocks entry (1),
\* for.body (2), for.done (3), for.loop (4), in the order the SSA builder
\* numbers them. The loop header holds two phis; the body holds MaxChain
\* additions (instructions 7 .. 6 + MaxChain), each on the one before it
\* (the first: on a phi), on a phi, or on the comparison.
LoopFuncs ==
    { Func(Str_F, Str_main,
           <<Block(<<1>>, <<>>, <<4>>),
             Block([k \in 1..(MaxChain + 1) |-> 6 + k], <<4>>, <<4>>),
             Block(<<6>>, <<4>>, <<>>),
             Block(<<2, 3, 4, 5>>, <<1, 2>>, <<2, 3>>)>>,
           <<Instr("Jump", "", <<>>, <<>>, 1),
             Instr("Phi", "", <<e1s, e2s>>, T_int, 4),
             Instr("Phi", "", <<ConstRef(T_int), e2i>>, T_int, 4),
             Instr("BinOp", "<", <<x, ParamRef(1, T_int)>>, T_bool, 4),
             Instr("If", "", <<InstrRef(4)>>, <<>>, 4),
             Instr("Return", "", <<ret>>, <<>>, 3)>>
           \o [k \in 1..MaxChain |->
                 Instr("BinOp", "+",
                       <<CASE chain[k] = "prev" -> InstrRef(IF k = 1 THEN 2 ELSE 5 + k)
                           [] chain[k] = "phi"  -> InstrRef(3)
                           [] chain[k] = "cmp"  -> InstrRef(4),
                         ConstRef(T_int)>>, T_int, 2)]
           \o <<Instr("Jump", "", <<>>, <<>>, 2)>>) :
        e1s \in {ConstRef(T_int), ParamRef(2, T_int)},
        e2s \in {InstrRef(6 + MaxChain), InstrRef(7), InstrRef(2), ConstRef(T_int)},
        e2i \in {InstrRef(6 + MaxChain), InstrRef(3)},
        x \in {InstrRef(3), InstrRef(2), ConstRef(T_int)},
        chain \in [1..MaxChain -> {"prev", "phi", "cmp"}],
        ret \in {InstrRef(2), InstrRef(3), ConstRef(T_int)} }

\* The module parseFunc finds: the intrinsics and the function's own
\* declaration (parseFuncDecl, tgo.go 285).
ModuleWith(F) == Append(Intrinsics, Decl("func", F.name))

FuncStart == [phase |-> "create", b |-> 0, i |-> 0, p |-> 0]

FuncInitWith(funcs) ==
    /\ fn \in funcs
    /\ domOrder \in DomPreorders(fn)
    /\ low = NewLowering(ModuleWith(fn))
    /\ fpc = FuncStart
    /\ pending = <<>>
    /\ ferr = ""

FuncInit == FuncInitWith(StraightFuncs \cup IfThenFuncs \cup LoopFuncs)

\* for _, block := range f.DomPreorder() { AddBasicBlock ... } (tgo.go 291-295)
CreateBlocks ==
    /\ fpc.phase = "create"
    /\ low' = createBlocks(low, fn, domOrder, 1)
    /\ fpc' = [phase |-> "lower", b |-> 1, i |-> 1, p |-> 0]
    /\ UNCHANGED <<fn, domOrder, pending, ferr>>
    /\ UNCHANGED <<drvVars, parseVars>>

FuncDone == [phase |-> "done", b |-> 0, i |-> 0, p |-> 0]

\* Where the second loop goes after instruction i of block order[b].
AfterInstr(b, i) ==
    IF i < Len(fn.blocks[domOrder[b]].instrs)
    THEN [phase |-> "lower", b |-> b, i |-> i + 1, p |-> 0]
    ELSE IF b < Len(domOrder)
    THEN [phase |-> "lower", b |-> b + 1, i |-> 1, p |-> 0]
    ELSE [phase |-> "phis", b |-> 0, i |-> 0, p |-> 1]

\* if err != nil { return err }, else on to the next instruction; the
\* third loop ranges over the phis the frame holds when it begins.
LowerInstrTo(r) ==
    /\ low' = r.L
    /\ ferr' = r.err
    /\ fpc' = IF r.err # "" THEN FuncDone ELSE AfterInstr(fpc.b, fpc.i)
    /\ pending' = IF r.err = "" /\ AfterInstr(fpc.b, fpc.i).phase = "phis"
                  THEN r.L.phis ELSE pending

\* err := c.parseInstr(frame, instr); if err != nil { return err }
\* (tgo.go 298-307), one instruction.
LowerInstr ==
    /\ fpc.phase = "lower"
    /\ LowerInstrTo(lowerAt(low, fn, domOrder, fpc.b, fpc.i))
    /\ UNCHANGED <<fn, domOrder>>
    /\ UNCHANGED <<drvVars, parseVars>>

ResolvePhiTo(r) ==
    /\ low' = r.L
    /\ ferr' = r.err
    /\ fpc' = IF r.err # "" THEN FuncDone ELSE [fpc EXCEPT !.p = @ + 1]

\* for _, phi := range frame.phis { ... } and return nil (tgo.go 310-322),
\* one phi, or the return when none is left.
ResolvePhis ==
    /\ fpc.phase = "phis"
    /\ IF fpc.p <= Len(pending)
       THEN ResolvePhiTo(resolveEdges(low, fn, pending[fpc.p], 1))
       ELSE /\ fpc' = FuncDone
            /\ UNCHANGED <<low, ferr>>
    /\ UNCHANGED <<fn, domOrder, pending>>
    /\ UNCHANGED <<drvVars, parseVars>>

FuncNext ==
    \/ CreateBlocks
    \/ LowerInstr
    \/ ResolvePhis

DrvIdle ==
    /\ pc = "idle"
    /\ printIR = FALSE
    /\ outfile = NoFile
    /\ objBytes = <<>>
    /\ irState = "empty"
    /\ stdout = <<>>
    /\ stages = <<>>
    /\ result = "running"
    /\ held = {}

InitFunc == FuncInit /\ DrvIdle /\ ParseIdle

NextFunc == FuncNext

SpecFunc == InitFunc /\ [][NextFunc]_vars

\* parseFunc step by step and parseFunc as one operation agree.
StepwiseAgrees ==
    fpc.phase = "done" =>
        parseFunc(NewLowering(ModuleWith(fn)), fn, domOrder) = [L |-> low, err |-> ferr]

\* ------------------------------------------------------------------------
\* The functions lowered in SpecBuiltin
\* ------------------------------------------------------------------------

\* What a print or println argument may be: a constant, a parameter, or
\* one of the two values the function computes before the call
\* (instruction 1, an int; instruction 2, a bool).
PrintArgChoices ==
    {ConstRef(T_int), ConstRef(T_string), ConstRef(T_bool), ConstRef(<<"float64">>),
     ParamRef(1, <<"int32">>), ParamRef(2, <<"named", "int">>),
     ParamRef(3, T_string), InstrRef(1), InstrRef(2)}

\* x := p + 1; y := p < 1; print(args...); return
PrintFuncs ==
    { Func(Str_F, Str_main,
           <<Block(<<1, 2, 3, 4>>, <<>>, <<>>)>>,
           <<Instr("BinOp", "+", <<ParamRef(1, T_int), ConstRef(T_int)>>, T_int, 1),
             Instr("BinOp", "<", <<ParamRef(1, T_int), ConstRef(T_int)>>, T_bool, 1),
             CallInstr(Builtin(name), args, <<>>, 1),
             Instr("Return", "", <<>>, <<>>, 1)>>) :
        name \in {"print", "println", "len"},
        args \in SeqUpTo(PrintArgChoices, MaxArgs) }

InitBuiltin == FuncInitWith(PrintFuncs) /\ DrvIdle /\ ParseIdle

SpecBuiltin == InitBuiltin /\ [][NextFunc]_vars

\* ------------------------------------------------------------------------
\* Claims about print and println (under SpecBuiltin)
\* ------------------------------------------------------------------------

\* An argument of int, int32 or string type.
Printable(goType) == goType # <<>> /\ Head(goType) \in {"int", "int32", "string"}

\* The intrinsic the specification names for a printable type.
IntrinsicOf(goType) ==
    IF Head(goType) = "string" THEN <<"__go_printstring">> ELSE <<"__go_printint">>

\* The value an argument stands for in the module.
ArgVal(v) ==
    CASE v.t = "instr" -> low.locals[v.id]
      [] v.t = "param" -> Val("param", v.id)
      [] OTHER -> Val("const", 0)

PrintCall(callee, args) == [callee |-> callee, args |-> args]

RECURSIVE ExpectedFrom(_, _)
\* The calls the claim expects for the arguments from i on.
ExpectedFrom(args, i) ==
    IF i > Len(args) THEN <<>>
    ELSE (IF i >= 2 THEN <<PrintCall(<<"__go_printspace">>, <<>>)>> ELSE <<>>)
         \o <<PrintCall(IntrinsicOf(TypeOf(fn, args[i])), <<ArgVal(args[i])>>)>>
         \o ExpectedFrom(args, i + 1)

ExpectedPrint(call) ==
    ExpectedFrom(call.ops, 1)
    \o (IF call.callee.name = "println"
        THEN <<PrintCall(<<"__go_printnl">>, <<>>)>> ELSE <<>>)

\* What a recorded parseBuiltin call emitted.
EmittedPrint(pr) ==
    [k \in 1..(pr.to - pr.from + 1) |->
        PrintCall(low.code[pr.from + k - 1].callee, low.code[pr.from + k - 1].args)]

OnlyCalls(pr) == \A n \in pr.from..pr.to : low.code[n].op = "call"

AllPrintable(call) == \A i \in DOMAIN call.ops : Printable(TypeOf(fn, call.ops[i]))

PrintSucceeds(pr, call) ==
    /\ pr.err = ""
    /\ OnlyCalls(pr)
    /\ EmittedPrint(pr) = ExpectedPrint(call)

ConstRejected(v) == v.t = "const" /\ ConstKind(v.typ) \notin {"Int", "String"}

FirstUnprintable(call) ==
    CHOOSE i \in DOMAIN call.ops :
        /\ ~Printable(TypeOf(fn, call.ops[i]))
        /\ \A j \in 1..(i - 1) : Printable(TypeOf(fn, call.ops[j]))

PhiInstrs == {id \in DOMAIN fn.ins : fn.ins[id].kind = "Phi"}

PhiCode == {n \in DOMAIN low.code : low.code[n].op = "phi"}

\* The phi of the module that stands for SSA phi id.
PhiFinal(id, n) ==
    LET preds == fn.blocks[fn.ins[id].block].preds IN
    /\ low.code[n].op = "phi"
    /\ low.code[n].bb = low.blocks[fn.ins[id].block]
    /\ Len(low.code[n].inc) = Len(preds)
    /\ \A i \in DOMAIN preds : low.code[n].inc[i].bb = low.blocks[preds[i]]

\* C8: a phi placeholder is created without incoming pairs while its block
\* is lowered; incoming pairs are added only after all blocks are lowered;
\* once parseFunc has returned without error, every phi has one incoming
\* pair per predecessor of its block, the i-th from the block mapped from
\* the i-th predecessor.
C8_PhiResolution ==
    /\ fpc.phase \in {"create", "lower"} =>
          /\ \A n \in PhiCode : low.code[n].inc = <<>>
          /\ \A id \in PhiInstrs :
                (id \in DOMAIN low.locals /\ ferr = "") =>
                    \E k \in DOMAIN low.phis :
                        /\ low.phis[k].ssa = id
                        /\ low.locals[id] = Val("inst", low.phis[k].llvm)
                        /\ low.code[low.phis[k].llvm].op = "phi"
    /\ (fpc.phase = "done" /\ ferr = "") =>
          /\ Cardinality(PhiCode) = Cardinality(PhiInstrs)
          /\ \A id \in PhiInstrs :
                \E k \in DOMAIN low.phis :
                    low.phis[k].ssa = id /\ PhiFinal(id, low.phis[k].llvm)

\* C8 witness: a loop has been lowered, and its two phis hold two incoming
\* pairs each.
C8_Witness ==
    /\ fpc.phase = "done"
    /\ ferr = ""
    /\ Cardinality(PhiInstrs) = 2
    /\ \A n \in PhiCode : Len(low.code[n].inc) = 2

\* C9: with the blocks lowered in dominator preorder, every lookup of an
\* instruction as an operand finds it in Frame.locals, no instruction is
\* lowered a second time, and phi edges are looked up only after all blocks
\* are lowered (and are found then). A lookup is an operand's when it is
\* not parseInstr's own lookup of the instruction it is lowering; the
\* lookups of phi edges are those made with no instruction being lowered.
C9_OperandsInLocals ==
    /\ \A e \in low.lookups : e.v # e.at => e.hit
    /\ \A id \in DOMAIN low.lowered : low.lowered[id] <= 1
    /\ fpc.phase \in {"create", "lower"} => \A e \in low.lookups : e.at # 0

\* C9 witness: a function has been lowered in which an instruction of one
\* block was found in locals as an operand of an instruction of another
\* block, and an instruction was found as a phi edge.
C9_Witness ==
    /\ fpc.phase = "done"
    /\ ferr = ""
    /\ \E e \in low.lookups :
          /\ e.hit
          /\ e.at # 0
          /\ fn.ins[e.v].block # fn.ins[e.at].block
    /\ \E e \in low.lookups : e.hit /\ e.at = 0

\* ------------------------------------------------------------------------
\* Program lowering: Parse (tgo.go 94-201)
\* ------------------------------------------------------------------------

\* An ssa.Member of a package: a function (blocks = <<>>: Blocks == nil, an
\* external function), a named constant, a global or a type.
Member(kind, name, typ, params, results, blocks, ins) ==
    [kind |-> kind, name |-> name, typ |-> typ, params |-> params,
     results |-> results, blocks |-> blocks, ins |-> ins]

MFunc(name, params, results, blocks, ins) ==
    Member("func", name, <<>>, params, results, blocks, ins)
MConst(name, typ) == Member("const", name, typ, <<>>, <<>>, <<>>, <<>>)
MGlobal(name, typ) == Member("global", name, typ, <<>>, <<>>, <<>>, <<>>)
MType(name) == Member("type", name, <<>>, <<>>, <<>>, <<>>, <<>>)

\* An ssa.Package: pkg.Pkg.Path(), pkg.Pkg.Name() and pkg.Members.
Package(path, name, S) ==
    [path |-> path, name |-> name,
     members |-> [n \in {m.name : m \in S} |-> CHOOSE m \in S : m.name = n]]

\* The orders in which ranging over a map, or over a slice built from
\* one, can yield the elements of S.
Orders(S) ==
    {p \in [1..Cardinality(S) -> S] : \A i, j \in DOMAIN p : p[i] = p[j] => i = j}

RECURSIVE StrLess(_, _)
\* a < b, as Go compares strings: byte by byte.
StrLess(a, b) ==
    IF a = <<>> THEN b # <<>>
    ELSE IF b = <<>> THEN FALSE
    ELSE IF Head(a) = Head(b) THEN StrLess(Tail(a), Tail(b))
    ELSE CharRank(Head(a)) < CharRank(Head(b))

RECURSIVE Insert(_, _)
Insert(sorted, x) ==
    IF sorted = <<>> THEN <<x>>
    ELSE IF StrLess(x, Head(sorted)) THEN <<x>> \o sorted
    ELSE <<Head(sorted)>> \o Insert(Tail(sorted), x)

RECURSIVE SortStrings(_)
\* sort.Strings(memberNames) (tgo.go 136)
SortStrings(names) ==
    IF names = <<>> THEN <<>>
    ELSE Insert(SortStrings(SubSeq(names, 1, Len(names) - 1)), names[Len(names)])

\* pkgPrefix (tgo.go 144-147)
PkgPrefix(pkg) == IF pkg.name = Str_main THEN Str_main ELSE pkg.path

\* ast.IsExported(name): the name begins with an upper-case letter.
IsExported(name) == name # <<>> /\ Head(name) \in {"F", "G"}

NoFrame == [pkgPrefix |-> <<>>, name |-> <<>>]

Declared(L, frame, err) == [L |-> L, frame |-> frame, err |-> err]

RECURSIVE paramsErr(_, _)
\* The first error of getLLVMType on the parameters from i on (tgo.go 275-282).
paramsErr(params, i) ==
    IF i > Len(params) THEN ""
    ELSE IF getLLVMType(params[i]).err # "" THEN getLLVMType(params[i]).err
    ELSE paramsErr(params, i + 1)

\* The result type of parseFuncDecl (tgo.go 261-272).
retTypeErr(results) ==
    IF results = <<>> THEN ""
    ELSE IF Len(results) = 1 THEN getLLVMType(results[1]).err
    ELSE "todo: return values"

\* llvm.AddFunction / llvm.AddGlobal: the declaration is appended to the module.
AddDecl(L, d) == [L EXCEPT !.mod = Append(@, d)]

\* parseFuncDecl (tgo.go 251-287)
parseFuncDecl(L, pkgPrefix, f) ==
    IF retTypeErr(f.results) # "" THEN Declared(L, NoFrame, retTypeErr(f.results))
    ELSE IF paramsErr(f.params, 1) # "" THEN Declared(L, NoFrame, paramsErr(f.params, 1))
    ELSE Declared(AddDecl(L, Decl("func", pkgPrefix \o Str_Dot \o f.name)),
                  [pkgPrefix |-> pkgPrefix, name |-> pkgPrefix \o Str_Dot \o f.name],
                  "")

\* global.SetLinkage(llvm.PrivateLinkage) if ast.IsExported(member.Name())
\* (tgo.go 164-166, 173-175)
AddGlobal(L, kind, pkgPrefix, name) ==
    AddDecl(L, [Decl(kind, pkgPrefix \o Str_Dot \o name) EXCEPT
                   !.private = IsExported(name)])

declareConst(r, pkgPrefix, member) ==
    IF r.err # "" THEN Declared(r.L, NoFrame, r.err)
    ELSE Declared(AddGlobal(r.L, "const", pkgPrefix, member.name), NoFrame, "")

\* The body of the declaration loop (tgo.go 142-180).
declareMember(L, pkgPrefix, member) ==
    CASE member.kind = "func" -> parseFuncDecl(L, pkgPrefix, member)
      [] member.kind = "const" ->
            declareConst(parseConst(L, member.typ), pkgPrefix, member)
      [] member.kind = "global" ->
            IF getLLVMType(member.typ).err # ""
            THEN Declared(L, NoFrame, getLLVMType(member.typ).err)
            ELSE Declared(AddGlobal(L, "global", pkgPrefix, member.name), NoFrame, "")
      [] member.kind = "type" -> Declared(L, NoFrame, "")
      [] OTHER -> Declared(L, NoFrame, "todo: member")

\* The ssa.Function with its frame, as parseFunc takes them.
FrameFunc(frame, f) ==
    [name |-> frame.name, pkgPrefix |-> frame.pkgPrefix,
     blocks |-> f.blocks, ins |-> f.ins]

\* Where Parse stands, having reached member m of n in a loop of package k.
Position(phase, k, m, n) ==
    IF m <= n THEN [phase |-> phase, k |-> k, m |-> m]
    ELSE IF phase = "declare" /\ n > 0 THEN [phase |-> "define", k |-> k, m |-> 1]
    ELSE [phase |-> "pkg", k |-> k + 1, m |-> 0]

ParseDone == [phase |-> "done", k |-> 0, m |-> 0]

\* The names the module declares.
DeclaredNames(L) == {L.mod[i].name : i \in DOMAIN L.mod}

\* What a run leaves behind.
Output(L, err) == [mod |-> L.mod, bbs |-> L.bbs, code |-> L.code, err |-> err]

\* ------------------------------------------------------------------------
\* The programs lowered in SpecParse
\* ------------------------------------------------------------------------

\* func f() { return }
PlainBody(name) ==
    MFunc(name, <<>>, <<>>,
          <<Block(<<1>>, <<>>, <<>>)>>,
          <<Instr("Return", "", <<>>, <<>>, 1)>>)

\* func f() { g(); return }, g a function of the package with prefix pkg
CallBody(name, pkg, g) ==
    MFunc(name, <<>>, <<>>,
          <<Block(<<1, 2>>, <<>>, <<>>)>>,
          <<CallInstr(FuncCallee(pkg, g), <<>>, <<>>, 1),
            Instr("Return", "", <<>>, <<>>, 1)>>)

\* The imported package, path "lib": its init, F, and possibly G.
LibPackages ==
    { Package(Str_lib, Str_lib, {PlainBody(Str_init), f} \cup g) :
        f \in {PlainBody(Str_F),
               CallBody(Str_F, Str_lib, Str_G),
               MFunc(Str_F, <<T_int>>, <<T_int>>, <<>>, <<>>),
               MFunc(Str_F, <<>>, <<T_int, T_int>>, <<>>, <<>>)},
        g \in {{}, {PlainBody(Str_G)}, {MConst(Str_G, T_int)},
               {MConst(Str_G, <<"float64">>)}, {MGlobal(Str_G, <<"ptr", "int">>)},
               {MGlobal(Str_G, <<"ptr", "float64">>)}, {MType(Str_G)}} }

\* The main package, path "app": its init and main, and possibly F and G.
MainPackages ==
    { Package(Str_app, Str_main, {PlainBody(Str_init), m} \cup f \cup g) :
        m \in {PlainBody(Str_main),
               CallBody(Str_main, Str_lib, Str_F),
               CallBody(Str_main, Str_main, Str_G)},
        f \in {{}, {PlainBody(Str_F)}},
        g \in {{}, {PlainBody(Str_G)}} }

\* Every call of a package's own function names a function the package has.
CallsResolve(pkg) ==
    \A n \in DOMAIN pkg.members : \A i \in DOMAIN pkg.members[n].ins :
        LET callee == pkg.members[n].ins[i].callee IN
        (callee.k = "func" /\ callee.pkg = PkgPrefix(pkg)) =>
            /\ callee.name \in DOMAIN pkg.members
            /\ pkg.members[callee.name].kind = "func"

Programs ==
    { {lib, main} : lib \in {l \in LibPackages : CallsResolve(l)},
                    main \in {m \in MainPackages : CallsResolve(m)} }

ParseInit ==
    /\ program \in Programs
    /\ run = 1
    /\ firstOut = <<>>
    /\ pkgOrder \in Orders(program)
    /\ ppc = [phase |-> "pkg", k |-> 1, m |-> 0]
    /\ memberNames = <<>>
    /\ frames = EmptyMap
    /\ comp = NewLowering(Intrinsics)
    /\ defined = <<>>
    /\ perr = ""

\* for _, pkg := range program.AllPackages() { ... sort.Strings(memberNames);
\* frames := make(...) (tgo.go 127-138)
StartPackage ==
    /\ ppc.phase = "pkg"
    /\ ppc.k <= Len(pkgOrder)
    /\ \E names \in Orders(DOMAIN pkgOrder[ppc.k].members) :
          /\ memberNames' = SortStrings(names)
          /\ ppc' = Position("declare", ppc.k, 1, Len(names))
    /\ frames' = EmptyMap
    /\ UNCHANGED <<program, pkgOrder, comp, defined, perr, run, firstOut>>
    /\ UNCHANGED <<drvVars, funcVars>>

DeclareMemberTo(r, member) ==
    /\ comp' = r.L
    /\ perr' = r.err
    /\ frames' = IF r.err = "" /\ member.kind = "func"
                 THEN (member.name :> r.frame) @@ frames ELSE frames
    /\ ppc' = IF r.err # "" THEN ParseDone
              ELSE Position("declare", ppc.k, ppc.m + 1, Len(memberNames))

\* One iteration of the declaration loop (tgo.go 141-181).
DeclareMember ==
    /\ ppc.phase = "declare"
    /\ DeclareMemberTo(declareMember(comp, PkgPrefix(pkgOrder[ppc.k]),
                                     pkgOrder[ppc.k].members[memberNames[ppc.m]]),
                       pkgOrder[ppc.k].members[memberNames[ppc.m]])
    /\ UNCHANGED <<program, pkgOrder, memberNames, defined, run, firstOut>>
    /\ UNCHANGED <<drvVars, funcVars>>

DefineMemberTo(r, F) ==
    /\ comp' = r.L
    /\ perr' = r.err
    /\ defined' = Append(defined, [fn |-> F.name, declared |-> DeclaredNames(comp)])
    /\ ppc' = IF r.err # "" THEN ParseDone
              ELSE Position("define", ppc.k, ppc.m + 1, Len(memberNames))

\* One iteration of the definition loop (tgo.go 184-197).
DefineMember ==
    /\ ppc.phase = "define"
    /\ LET member == pkgOrder[ppc.k].members[memberNames[ppc.m]] IN
       IF member.kind = "func" /\ member.blocks # <<>>
       THEN \E order \in DomPreorders(member) :
               DefineMemberTo(parseFunc(NewFrame(comp),
                                        FrameFunc(frames[member.name], member), order),
                              FrameFunc(frames[member.name], member))
       ELSE /\ ppc' = Position("define", ppc.k, ppc.m + 1, Len(memberNames))
            /\ UNCHANGED <<comp, perr, defined>>
    /\ UNCHANGED <<program, pkgOrder, memberNames, frames, run, firstOut>>
    /\ UNCHANGED <<drvVars, funcVars>>

\* return nil (tgo.go 200)
ParseReturn ==
    /\ ppc.phase = "pkg"
    /\ ppc.k > Len(pkgOrder)
    /\ ppc' = ParseDone
    /\ perr' = ""
    /\ UNCHANGED <<program, pkgOrder, memberNames, frames, comp, defined, run, firstOut>>
    /\ UNCHANGED <<drvVars, funcVars>>

\* The compiler is run a second time on the same program: a new Compiler
\* (tgo.go 60-92), and whatever order AllPackages yields this time.
SecondRun ==
    /\ ppc.phase = "done"
    /\ run = 1
    /\ run' = 2
    /\ firstOut' = Output(comp, perr)
    /\ pkgOrder' \in Orders(program)
    /\ ppc' = [phase |-> "pkg", k |-> 1, m |-> 0]
    /\ memberNames' = <<>>
    /\ frames' = EmptyMap
    /\ comp' = NewLowering(Intrinsics)
    /\ defined' = <<>>
    /\ perr' = ""
    /\ UNCHANGED program
    /\ UNCHANGED <<drvVars, funcVars>>

ParseNext ==
    \/ StartPackage
    \/ DeclareMember
    \/ DefineMember
    \/ ParseReturn
    \/ SecondRun

InitParse == ParseInit /\ DrvIdle /\ FuncIdle

NextParse == ParseNext

SpecParse == InitParse /\ [][NextParse]_vars

\* ------------------------------------------------------------------------
\* Claims about Parse (under SpecParse)
\* ------------------------------------------------------------------------

\* C1: two runs on the same program that differ only in the order the
\* packages and members are yielded in, and that both return without
\* error, leave the same declarations and definitions in the module.
C1_SameModule ==
    (run = 2 /\ ppc.phase = "done" /\ perr = "" /\ firstOut.err = "")
        => Output(comp, perr) = firstOut

\* The callee's qualified name: its package's prefix, '.', its name.
QualifiedName(callee) == callee.pkg \o Str_Dot \o callee.name

\* C5: a call of a function resolves to the declaration carrying the
\* callee's qualified name, whatever package the caller is in, and fails
\* as undefined only when the module has no declaration of that name.
C5_CalleeResolution ==
    \A i \in DOMAIN comp.calls :
        /\ comp.calls[i].found => comp.calls[i].name = QualifiedName(comp.calls[i].callee)
        /\ ~comp.calls[i].found => ~comp.calls[i].declared

\* The qualified names of the functions, globals and named constants of
\* every package of the program.
Declarable ==
    UNION { {PkgPrefix(pkg) \o Str_Dot \o n :
                n \in {x \in DOMAIN pkg.members :
                          pkg.members[x].kind \in {"func", "global", "const"}}} :
            pkg \in program }

\* C7: when the lowering of any function body begins, every function,
\* global and named constant of every package is declared in the module.
C7_DeclaredBeforeDefined ==
    \A i \in DOMAIN defined : Declarable \subseteq defined[i].declared

\* ------------------------------------------------------------------------
\* Claims about the driver
\* ------------------------------------------------------------------------

LastStage == stages[Len(stages)]

\* C2: whenever the first Verify, the second Verify or EmitObject fails, no
\* object file exists at the output path when Compile returns, also when a
\* file was there before the run.
C2_NoObjectAfterFailure ==
    (/\ pc = "Done"
     /\ stages # <<>>
     /\ ~LastStage.ok
     /\ LastStage.stage \in {"Verify", "EmitObject"})
        => ~outfile.exists

\* C3: after EmitObject returns without error the file at path holds exactly
\* the emitted object bytes, whatever was at path before.
C3_EmitObjectExact ==
    (/\ stages # <<>>
     /\ LastStage.stage = "EmitObject"
     /\ LastStage.ok)
        => outfile = File(objBytes)

\* C4: with -printir, every print of the IR happens after Optimize has run
\* and prints the post-optimization module.
C4_PrintAfterOptimize ==
    \A i \in DOMAIN stdout :
        /\ stdout[i] = "optimized"
        /\ \E j \in DOMAIN stages : stages[j].stage = "Optimize"

\* C11: when Optimize or EmitObject has returned, on success or with an
\* error, the pass-manager builder, the two pass managers and the memory
\* buffer of the object bytes have all been released.
C11_ScopedReleased ==
    (stages # <<>> /\ LastStage.stage \in {"Optimize", "EmitObject"})
        => held \cap {"builder", "funcPasses", "modPasses", "buf"} = {}

StageOrder == <<"Parse", "Verify", "Optimize", "Verify", "EmitObject">>

\* C10: the stages run in the order Parse, Verify, Optimize, Verify,
\* EmitObject, and a stage that returned an error is the last one to run:
\* Optimize runs only after Parse and the first Verify succeeded, EmitObject
\* only after both Verify calls succeeded.
C10_PipelineOrder ==
    /\ Len(stages) <= Len(StageOrder)
    /\ \A i \in DOMAIN stages :
          /\ stages[i].stage = StageOrder[i]
          /\ i < Len(stages) => stages[i].ok
    /\ result = "nil" =>
          /\ Len(stages) = Len(StageOrder)
          /\ \A i \in DOMAIN stages : stages[i].ok

\* C10 witness: Compile has returned after the second Verify failed, with
\* Parse, the first Verify and Optimize run before it and nothing after it.
C10_Witness ==
    /\ pc = "Done"
    /\ result = "error"
    /\ Len(stages) = 4
    /\ ~stages[4].ok

=============================================================================
